---- MODULE Spec2Model ----
(***************************************************************************)
(* Model of the monthly donation report generator                          *)
(* (src/donation_report_generator.py): the command's pipeline              *)
(* main = parse/validate arguments, fetch, analyze, create charts,         *)
(* generate PDF, and the analysis DonationReportGenerator.analyze_donations *)
(* computed as the code computes it (two passes over the records, a dict   *)
(* of running totals in insertion order, a stable descending sort, a       *)
(* slice of ten).                                                          *)
(*                                                                         *)
(* JSON values are tagged records [t, v, s]: a missing key ("absent"),     *)
(* null, a number, or a string.  A string is the sequence of its tokens    *)
(* (characters, or chunks of characters that contain no 'T' and are no     *)
(* sign or digit).  Amounts are integers: Python's float arithmetic is     *)
(* exact on integers of this size, so sums are computed exactly.           *)
(***************************************************************************)
EXTENDS Integers, Sequences, FiniteSets, TLC

VARIABLES
    profile,      \* which family of API responses the run draws from
    argv_ok,      \* whether argparse accepts the command line (line 282)
    year,         \* args.year
    month,        \* args.month
    pc,           \* position of main
    donations,    \* the decoded response of the API (line 302)
    analysis,     \* the value analyze_donations returned, or what it raised
    locals,       \* analyze_donations' local supporter_totals, sorted_supporters
    requests,     \* number of HTTP requests issued (line 53)
    charts,       \* chart images written by create_visualizations
    pdf,          \* whether pdf.output wrote the report (line 270)
    exit_code,    \* the process's exit status, -1 while running
    log           \* the stages entered, in order, with their outcome

vars == <<profile, argv_ok, year, month, pc, donations, analysis, locals,
          requests, charts, pdf, exit_code, log>>

-----------------------------------------------------------------------------
(* Bounds of the model *)

\* longest response of the "amounts", "dates" and "names" families
MaxLen == 3
\* number of distinct supporters that pad a response of the "top" family
MaxFill == 10
\* longest free part of a response of the "top" family
MaxFree == 2

-----------------------------------------------------------------------------
(* JSON values *)

Absent == [t |-> "absent", v |-> 0, s |-> << >>]
Null == [t |-> "null", v |-> 0, s |-> << >>]
Num(n) == [t |-> "num", v |-> n, s |-> << >>]
Str(text) == [t |-> "str", v |-> 0, s |-> text]

\* dict.get(key, default): the default only when the key is missing
Get(field, default) == IF field.t = "absent" THEN default ELSE field

\* dict.get(key): None for a missing key
GetNone(field) == Get(field, Null)

\* truth value of a Python object: None, 0 and '' are false
Truthy(x) ==
    CASE x.t = "str" -> x.s # << >>
      [] x.t = "num" -> x.v # 0
      [] OTHER -> FALSE

DigitValue(c) ==
    CASE c = "0" -> 0 [] c = "1" -> 1 [] c = "2" -> 2 [] c = "3" -> 3
      [] c = "4" -> 4 [] c = "5" -> 5 [] c = "6" -> 6 [] c = "7" -> 7
      [] c = "8" -> 8 [] c = "9" -> 9 [] OTHER -> -1

DigitChar(n) == <<"0", "1", "2", "3", "4", "5", "6", "7", "8", "9">>[n + 1]

IsDigits(text) ==
    /\ text # << >>
    /\ \A i \in 1..Len(text) : DigitValue(text[i]) >= 0

RECURSIVE DigitsValue(_)
DigitsValue(text) ==
    IF text = << >> THEN 0
    ELSE 10 * DigitsValue(SubSeq(text, 1, Len(text) - 1))
         + DigitValue(text[Len(text)])

\* float(x), line 80 and 106: a number as it is; a string of an optional sign
\* and decimal digits parsed; any other string ValueError; None TypeError
Float(x) ==
    CASE x.t = "num" -> [exc |-> "none", v |-> x.v]
      [] x.t = "str" ->
            LET signed == x.s # << >> /\ x.s[1] \in {"-", "+"}
                digits == IF signed THEN Tail(x.s) ELSE x.s
            IN  IF IsDigits(digits)
                THEN [exc |-> "none",
                      v |-> IF signed /\ x.s[1] = "-"
                            THEN 0 - DigitsValue(digits)
                            ELSE DigitsValue(digits)]
                ELSE [exc |-> "ValueError", v |-> 0]
      [] OTHER -> [exc |-> "TypeError", v |-> 0]

AmountField_One(donation) == Get(donation.amount, Num(1))

\* donation.get('amount', 0), line 80 and 106
AmountField(donation) == Get(donation.amount, Num(0))

RECURSIVE IntText(_)
\* str(n) of a non-negative integer
IntText(n) ==
    IF n < 10 THEN <<DigitChar(n)>>
    ELSE IntText(n \div 10) \o <<DigitChar(n % 10)>>

\* the text an f-string substitutes for a value
Format(x) ==
    CASE x.t = "num" -> IntText(x.v)
      [] x.t = "str" -> x.s
      [] OTHER -> <<"None">>

\* f'Supporter {supporter_id}', line 105
Placeholder(supporter_id) == Str(<<"Supporter ">> \o Format(supporter_id))

RECURSIVE IndexOf(_, _, _)
\* position of the first token c in text at or after i, 0 if none
IndexOf(text, c, i) ==
    IF i > Len(text) THEN 0
    ELSE IF text[i] = c THEN i ELSE IndexOf(text, c, i + 1)

DatePrefix_Whole(text) == text

\* created_at.split('T')[0], line 88
DatePrefix(text) ==
    LET k == IndexOf(text, "T", 1)
    IN  IF k = 0 THEN text ELSE SubSeq(text, 1, k - 1)

-----------------------------------------------------------------------------
(* analyze_donations, lines 58-142 *)

\* the length of the slice sorted_supporters[:10], line 131
TopN == 10

\* what a dict holds under key, as the index of its entry (0: no such key)
RECURSIVE KeyIndex(_, _, _)
KeyIndex(dict, key, i) ==
    IF i > Len(dict) THEN 0
    ELSE IF dict[i].key = key THEN i ELSE KeyIndex(dict, key, i + 1)

DailyAdd_Overwrite(daily_revenue, date_str, amount) ==
    LET k == KeyIndex(daily_revenue, date_str, 1)
    IN  IF k # 0
        THEN [daily_revenue EXCEPT ![k].val = amount]
        ELSE Append(daily_revenue, [key |-> date_str, val |-> amount])

\* lines 89-92: add to the date's running total, or create the entry
DailyAdd(daily_revenue, date_str, amount) ==
    LET k == KeyIndex(daily_revenue, date_str, 1)
    IN  IF k # 0
        THEN [daily_revenue EXCEPT ![k].val = @ + amount]
        ELSE Append(daily_revenue, [key |-> date_str, val |-> amount])

\* the first loop's state before its first iteration, lines 74-76
Loop1Init ==
    [exc |-> "none", supporter_ids |-> << >>, donation_amounts |-> << >>,
     daily_revenue |-> << >>]

\* one iteration of the first loop, lines 79-92
Loop1Body(acc, donation) ==
    LET supporter_id == GetNone(donation.supporter_id)
        amount == Float(AmountField(donation))
        created_at == Get(donation.created_at, Str(<< >>))
    IN  IF amount.exc # "none" THEN [acc EXCEPT !.exc = amount.exc]
        ELSE IF Truthy(created_at) /\ created_at.t # "str"
        THEN [acc EXCEPT !.exc = "AttributeError",
                  !.supporter_ids = Append(@, supporter_id),
                  !.donation_amounts = Append(@, amount.v)]
        ELSE [acc EXCEPT
                  !.supporter_ids = Append(@, supporter_id),
                  !.donation_amounts = Append(@, amount.v),
                  !.daily_revenue =
                      IF Truthy(created_at)
                      THEN DailyAdd(@, DatePrefix(created_at.s), amount.v)
                      ELSE @]

RECURSIVE Loop1(_, _, _)
\* the first loop, lines 78-92: stops at the first exception
Loop1(ds, i, acc) ==
    IF i > Len(ds) \/ acc.exc # "none" THEN acc
    ELSE Loop1(ds, i + 1, Loop1Body(acc, ds[i]))

RECURSIVE Sum(_)
\* sum(donation_amounts), line 98
Sum(amounts) ==
    IF amounts = << >> THEN 0 ELSE amounts[1] + Sum(Tail(amounts))

UniqueCount_NoSet(supporter_ids) == Len(supporter_ids)

\* len(set(supporter_ids)) if supporter_ids else 0, line 96
UniqueCount(supporter_ids) ==
    IF supporter_ids # << >>
    THEN Cardinality({supporter_ids[i] : i \in 1..Len(supporter_ids)})
    ELSE 0

RECURSIVE IdIndex(_, _, _)
\* supporter_id in supporter_totals, as the index of its entry (0: absent)
IdIndex(supporter_totals, supporter_id, i) ==
    IF i > Len(supporter_totals) THEN 0
    ELSE IF supporter_totals[i].id = supporter_id THEN i
    ELSE IdIndex(supporter_totals, supporter_id, i + 1)

UpdateSupporter_Rename(supporter_totals, supporter_id, supporter_name, amount) ==
    LET k == IdIndex(supporter_totals, supporter_id, 1)
    IN  IF k # 0
        THEN [supporter_totals EXCEPT ![k].total = @ + amount,
                                      ![k].count = @ + 1,
                                      ![k].name = supporter_name]
        ELSE Append(supporter_totals,
                    [id |-> supporter_id, name |-> supporter_name,
                     total |-> amount, count |-> 1])

\* lines 108-116: add to the supporter's entry, or create it
UpdateSupporter(supporter_totals, supporter_id, supporter_name, amount) ==
    LET k == IdIndex(supporter_totals, supporter_id, 1)
    IN  IF k # 0
        THEN [supporter_totals EXCEPT ![k].total = @ + amount,
                                      ![k].count = @ + 1]
        ELSE Append(supporter_totals,
                    [id |-> supporter_id, name |-> supporter_name,
                     total |-> amount, count |-> 1])

\* one iteration of the second loop, lines 104-116
Loop2Body(acc, donation) ==
    LET supporter_id == GetNone(donation.supporter_id)
        supporter_name == Get(donation.supporter_name, Placeholder(supporter_id))
        amount == Float(AmountField(donation))
    IN  IF amount.exc # "none" THEN [acc EXCEPT !.exc = amount.exc]
        ELSE [acc EXCEPT !.supporter_totals =
                  UpdateSupporter(@, supporter_id, supporter_name, amount.v)]

RECURSIVE Loop2(_, _, _)
\* the second loop, lines 102-116
Loop2(ds, i, acc) ==
    IF i > Len(ds) \/ acc.exc # "none" THEN acc
    ELSE Loop2(ds, i + 1, Loop2Body(acc, ds[i]))

\* number of leading entries of a descending list whose total is >= total
RECURSIVE CountGeq(_, _, _)
CountGeq(sorted, total, i) ==
    IF i > Len(sorted) \/ sorted[i].total < total THEN i - 1
    ELSE CountGeq(sorted, total, i + 1)

\* number of leading entries of a descending list whose total is > total
RECURSIVE CountGt(_, _, _)
CountGt(sorted, total, i) ==
    IF i > Len(sorted) \/ sorted[i].total <= total THEN i - 1
    ELSE CountGt(sorted, total, i + 1)

InsertAt(sorted, k, entry) ==
    SubSeq(sorted, 1, k) \o <<entry>> \o SubSeq(sorted, k + 1, Len(sorted))

RECURSIVE SortDesc(_, _, _)
\* entries i.. of items inserted into sorted, each behind the entries whose
\* total is not smaller: equal totals keep the order of items
SortDesc(items, i, sorted) ==
    IF i > Len(items) THEN sorted
    ELSE SortDesc(items, i + 1,
                  InsertAt(sorted, CountGeq(sorted, items[i].total, 1), items[i]))

RECURSIVE SortDescUnstable(_, _, _)
SortDescUnstable(items, i, sorted) ==
    IF i > Len(items) THEN sorted
    ELSE SortDescUnstable(items, i + 1,
                  InsertAt(sorted, CountGt(sorted, items[i].total, 1), items[i]))

SortedSupporters_Unstable(supporter_totals) ==
    SortDescUnstable(supporter_totals, 1, << >>)

\* sorted(supporter_totals.items(), key=total, reverse=True), lines 119-123:
\* the sort is stable, and reverse=True keeps the order of equal keys
SortedSupporters(supporter_totals) == SortDesc(supporter_totals, 1, << >>)

\* the list comprehension over sorted_supporters[:10], lines 125-132
TopSupporters(sorted_supporters) ==
    LET n == IF Len(sorted_supporters) < TopN
             THEN Len(sorted_supporters) ELSE TopN
    IN  [i \in 1..n |->
            [name |-> sorted_supporters[i].name,
             total_donated |-> sorted_supporters[i].total,
             donation_count |-> sorted_supporters[i].count]]

\* the summary of an empty list, lines 63-71
EmptySummary ==
    [status |-> "returned", exc |-> "none",
     total_supporters |-> 0, unique_supporters |-> 0, total_donations |-> 0,
     total_revenue |-> 0, average_donation |-> [num |-> 0, den |-> 1],
     top_supporters |-> << >>, daily_revenue |-> << >>]

\* the call left by an exception: no summary
Raised(exc) == [EmptySummary EXCEPT !.status = "raised", !.exc = exc]

NoLocals == [supporter_totals |-> << >>, sorted_supporters |-> << >>]

\* analyze_donations(donations), lines 58-142: the value returned (ret) and
\* the locals supporter_totals and sorted_supporters it was built from (loc)
AnalyzeDonations(ds) ==
    IF ds = << >> THEN [ret |-> EmptySummary, loc |-> NoLocals]
    ELSE
    LET l1 == Loop1(ds, 1, Loop1Init)
        total_supporters == Len(l1.supporter_ids)
        unique_supporters == UniqueCount(l1.supporter_ids)
        total_donations == Len(ds)
        total_revenue == Sum(l1.donation_amounts)
        average_donation ==
            IF total_donations > 0
            THEN [num |-> total_revenue, den |-> total_donations]
            ELSE [num |-> 0, den |-> 1]
        l2 == Loop2(ds, 1, [exc |-> "none", supporter_totals |-> << >>])
        sorted_supporters == SortedSupporters(l2.supporter_totals)
    IN  IF l1.exc # "none" THEN [ret |-> Raised(l1.exc), loc |-> NoLocals]
        ELSE IF l2.exc # "none" THEN [ret |-> Raised(l2.exc), loc |-> NoLocals]
        ELSE [ret |->
                [status |-> "returned", exc |-> "none",
                 total_supporters |-> total_supporters,
                 unique_supporters |-> unique_supporters,
                 total_donations |-> total_donations,
                 total_revenue |-> total_revenue,
                 average_donation |-> average_donation,
                 top_supporters |-> TopSupporters(sorted_supporters),
                 daily_revenue |-> l1.daily_revenue],
              loc |->
                [supporter_totals |-> l2.supporter_totals,
                 sorted_supporters |-> sorted_supporters]]

-----------------------------------------------------------------------------
(* The inputs: command lines and API responses *)

\* datetime.MINYEAR and datetime.MAXYEAR, the years datetime() accepts
MINYEAR == 1
MAXYEAR == 9999

Years == {0, 2024, 10000}
Months == {0, 6, 13}

Donation(supporter_id, supporter_name, amount, created_at) ==
    [supporter_id |-> supporter_id, supporter_name |-> supporter_name,
     amount |-> amount, created_at |-> created_at]

SeqsUpTo(S, n) == UNION {[1..k -> S] : k \in 0..n}

\* records whose amount is missing, null, not a number, or a decimal text
AmountRecords ==
    {Donation(id, Absent, amount, created_at) :
        id \in {Absent, Num(1)},
        amount \in {Absent, Null, Str(<<"x">>), Str(<<"2">>)},
        created_at \in {Absent, Str(<<"d1", "T", "t1">>)}}

\* records whose created_at is missing, null, empty, a date alone, a date and
\* a time, or a time alone
DateRecords ==
    {Donation(Num(1), Absent, amount, created_at) :
        amount \in {Num(1), Num(2)},
        created_at \in {Absent, Null, Str(<< >>), Str(<<"d1">>),
                        Str(<<"d1", "T", "t1">>), Str(<<"d2", "T", "t1">>),
                        Str(<<"T", "t1">>)}}

\* records of up to three supporters (one of them without an id), named or not
NameRecords ==
    {Donation(id, name, Num(1), Absent) :
        id \in {Absent, Null, Num(1), Num(2)},
        name \in {Absent, Str(<<"Ann">>), Str(<<"Bob">>)}}

\* k donations of 1 by k distinct unnamed supporters 3, 4, ...
Fill(k) == [i \in 1..k |-> Donation(Num(2 + i), Absent, Num(1), Absent)]

FreeRecords ==
    {Donation(id, Absent, amount, Absent) :
        id \in {Num(1), Num(2)},
        amount \in {Str(<<"-", "1">>), Num(1), Num(2)}}

\* responses with more supporters than the top list holds: donations by
\* supporters 1 and 2 before or after those of up to MaxFill others
TopResponses ==
    UNION {{Fill(k) \o f, f \o Fill(k)} :
              k \in 0..MaxFill, f \in SeqsUpTo(FreeRecords, MaxFree)}

Profiles == {"amounts", "dates", "names", "top"}

Responses(p) ==
    CASE p = "amounts" -> SeqsUpTo(AmountRecords, MaxLen)
      [] p = "dates" -> SeqsUpTo(DateRecords, MaxLen)
      [] p = "names" -> SeqsUpTo(NameRecords, MaxLen)
      [] OTHER -> TopResponses

-----------------------------------------------------------------------------
(* main, lines 274-323 *)

ChartFiles == <<"daily_revenue", "top_supporters">>

Init ==
    /\ profile \in Profiles
    /\ argv_ok \in BOOLEAN
    /\ year \in (IF argv_ok THEN Years ELSE {0})
    /\ month \in (IF argv_ok THEN Months ELSE {0})
    /\ pc = "start"
    /\ donations = << >>
    /\ analysis = Raised("none")
    /\ locals = NoLocals
    /\ requests = 0
    /\ charts = {}
    /\ pdf = FALSE
    /\ exit_code = -1
    /\ log = << >>

\* sys.exit(code), also what an uncaught exit of argparse does
Exit(code) == pc' = "exit" /\ exit_code' = code

\* a stage of the try block entered, with whether it returned
Logged(stage, ok) == log' = Append(log, [stage |-> stage, ok |-> ok])

\* datetime(year, month, 1) does not raise ValueError, lines 39 and 290
ValidDate(y, m) == MINYEAR <= y /\ y <= MAXYEAR /\ 1 <= m /\ m <= 12

\* parser.parse_args(), line 282: argparse exits with status 2 on a command
\* line it rejects (a missing --token, a month that is no integer)
ParseArgs ==
    /\ pc = "start"
    /\ IF argv_ok THEN pc' = "parsed" /\ exit_code' = exit_code ELSE Exit(2)
    /\ UNCHANGED <<profile, argv_ok, year, month, donations, analysis, locals,
                   requests, charts, pdf, log>>

ValidateArgs_ExitZero ==
    /\ pc = "parsed"
    /\ IF ~(1 <= month /\ month <= 12) THEN Exit(0)
       ELSE IF ~ValidDate(year, month) THEN Exit(0)
       ELSE pc' = "validated" /\ exit_code' = exit_code
    /\ UNCHANGED <<profile, argv_ok, year, month, donations, analysis, locals,
                   requests, charts, pdf, log>>

\* lines 284-298: the month's range, then the date; the generator is built
ValidateArgs ==
    /\ pc = "parsed"
    /\ IF ~(1 <= month /\ month <= 12) THEN Exit(1)
       ELSE IF ~ValidDate(year, month) THEN Exit(1)
       ELSE pc' = "validated" /\ exit_code' = exit_code
    /\ UNCHANGED <<profile, argv_ok, year, month, donations, analysis, locals,
                   requests, charts, pdf, log>>

\* line 302, get_donations_for_month (lines 34-56): the dates of the month
\* (ValueError before any request), one GET, then raise_for_status and json();
\* a RequestException or any other exception ends the run, lines 318-323
Fetch ==
    /\ pc = "validated"
    /\ IF ~ValidDate(year, month)
       THEN /\ Exit(1) /\ Logged("fetch", FALSE)
            /\ UNCHANGED <<donations, requests>>
       ELSE /\ requests' = requests + 1
            /\ \E outcome \in {"ok", "RequestException", "Exception"} :
                  IF outcome = "ok"
                  THEN /\ \E response \in Responses(profile) :
                              donations' = response
                       /\ pc' = "fetched" /\ exit_code' = exit_code
                       /\ Logged("fetch", TRUE)
                  ELSE /\ Exit(1) /\ Logged("fetch", FALSE)
                       /\ donations' = donations
    /\ UNCHANGED <<profile, argv_ok, year, month, analysis, locals, charts, pdf>>

Analyze_Continue ==
    /\ pc = "fetched"
    /\ LET a == AnalyzeDonations(donations)
       IN  /\ analysis' = a.ret
           /\ locals' = a.loc
           /\ pc' = "analyzed" /\ exit_code' = exit_code
           /\ Logged("analyze", a.ret.status = "returned")
    /\ UNCHANGED <<profile, argv_ok, year, month, donations, requests, charts,
                   pdf>>

\* lines 306-307: an exception of analyze_donations ends the run, lines 321-323
Analyze ==
    /\ pc = "fetched"
    /\ LET a == AnalyzeDonations(donations)
       IN  /\ analysis' = a.ret
           /\ locals' = a.loc
           /\ IF a.ret.status = "returned"
              THEN pc' = "analyzed" /\ exit_code' = exit_code
              ELSE Exit(1)
           /\ Logged("analyze", a.ret.status = "returned")
    /\ UNCHANGED <<profile, argv_ok, year, month, donations, requests, charts,
                   pdf>>

\* lines 310-311, create_visualizations (lines 144-205): the two images are
\* saved one after the other (lines 166/173, 195/202); an exception leaves the
\* images saved before it
CreateVisualizations ==
    /\ pc = "analyzed"
    /\ \E saved \in 0..Len(ChartFiles) :
          /\ charts' = {ChartFiles[i] : i \in 1..saved}
          /\ IF saved = Len(ChartFiles)
             THEN pc' = "charted" /\ exit_code' = exit_code
             ELSE Exit(1)
          /\ Logged("charts", saved = Len(ChartFiles))
    /\ UNCHANGED <<profile, argv_ok, year, month, donations, analysis, locals,
                   requests, pdf>>

\* lines 314-316, generate_pdf_report (lines 207-271): the file is written by
\* pdf.output, the last call (line 270); then main returns
GeneratePdf ==
    /\ pc = "charted"
    /\ \E written \in BOOLEAN :
          /\ pdf' = written
          /\ IF written THEN Exit(0) ELSE Exit(1)
          /\ Logged("pdf", written)
    /\ UNCHANGED <<profile, argv_ok, year, month, donations, analysis, locals,
                   requests, charts>>

Next ==
    \/ ParseArgs
    \/ ValidateArgs
    \/ Fetch
    \/ Analyze
    \/ CreateVisualizations
    \/ GeneratePdf

Spec == Init /\ [][Next]_vars

InitAmounts == Init /\ profile = "amounts"
InitDates == Init /\ profile = "dates"
InitNames == Init /\ profile = "names"
InitTop == Init /\ profile = "top"

SpecAmounts == InitAmounts /\ [][Next]_vars
SpecDates == InitDates /\ [][Next]_vars
SpecNames == InitNames /\ [][Next]_vars
SpecTop == InitTop /\ [][Next]_vars

-----------------------------------------------------------------------------
(* What the properties are stated with: the input, read off record by record *)

\* analyze_donations was called in this run
Analyzed == \E k \in 1..Len(log) : log[k].stage = "analyze"

\* the call returned a summary
Returned == Analyzed /\ analysis.status = "returned"

Indices == 1..Len(donations)

\* the number a record's amount stands for; 0 when it has none (no amount
\* field, null, or a text that is no number)
NominalAmount(d) ==
    CASE d.amount.t = "num" -> d.amount.v
      [] d.amount.t = "str" /\ d.amount.s # << >> ->
            LET body == IF d.amount.s[1] \in {"-", "+"}
                        THEN Tail(d.amount.s) ELSE d.amount.s
            IN  IF ~IsDigits(body) THEN 0
                ELSE IF d.amount.s[1] = "-" THEN 0 - DigitsValue(body)
                ELSE DigitsValue(body)
      [] OTHER -> 0

RECURSIVE SumIdx(_)
\* the sum of the amounts of the records at the indices I
SumIdx(I) ==
    IF I = {} THEN 0
    ELSE LET i == CHOOSE i \in I : TRUE
         IN  NominalAmount(donations[i]) + SumIdx(I \ {i})

HasAmount(d) == d.amount.t # "absent"

\* two records are of the same supporter: the same id, or both without one
NoId(d) == d.supporter_id.t \in {"absent", "null"}
SameSupporter(d, e) ==
    \/ NoId(d) /\ NoId(e)
    \/ ~NoId(d) /\ ~NoId(e) /\ d.supporter_id = e.supporter_id

\* the records of the supporter of record i, and the first of them
RecordsOf(i) == {j \in Indices : SameSupporter(donations[i], donations[j])}
FirstOf(i) == CHOOSE j \in RecordsOf(i) : \A k \in RecordsOf(i) : j <= k
FirstRecords == {i \in Indices : FirstOf(i) = i}

\* the record in which the supporter with this id (None: no id) was first met
FirstWithId(id) ==
    CHOOSE j \in Indices :
        /\ GetNone(donations[j].supporter_id) = id
        /\ \A k \in 1..(j - 1) : GetNone(donations[k].supporter_id) # id

\* a record carries a created_at text / a created_at text that is not empty
HasCreatedAt(d) == d.created_at.t = "str"
HasDate(d) == d.created_at.t = "str" /\ d.created_at.s # << >>

\* the text up to the first 'T', or the whole text if it has none
PrefixLen(text) ==
    CHOOSE k \in 0..Len(text) :
        /\ \A j \in 1..k : text[j] # "T"
        /\ (k = Len(text) \/ text[k + 1] = "T")
PrefixOf(d) == SubSeq(d.created_at.s, 1, PrefixLen(d.created_at.s))

Keys == {analysis.daily_revenue[k].key : k \in 1..Len(analysis.daily_revenue)}
Top == analysis.top_supporters
Ranked == locals.sorted_supporters

-----------------------------------------------------------------------------
(* Properties *)

\* C1 (as claimed): analyze_donations never raises because of a malformed
\* amount: whenever it was called it returned a summary, in which a record
\* whose amount is absent, null or no number counts as 0 in total_revenue.
C1_NeverRaises ==
    Analyzed =>
        /\ analysis.status = "returned"
        /\ analysis.total_revenue = SumIdx(Indices)

\* C2: top_supporters has length min(10, unique_supporters); it lists the
\* supporters by non-increasing total, among equal totals the supporter first
\* met earlier in the input first; a supporter left out has no larger total
\* than a listed one and, with an equal total, was first met later.
C2_TopSupporters ==
    Returned =>
        LET first == [i \in 1..Len(Top) |-> FirstWithId(Ranked[i].id)]
            listed == {first[i] : i \in 1..Len(Top)}
        IN
        /\ Len(Top) = (IF analysis.unique_supporters < 10
                       THEN analysis.unique_supporters ELSE 10)
        /\ \A i \in 1..Len(Top) :
              /\ Top[i].total_donated = SumIdx(RecordsOf(first[i]))
              /\ Top[i].donation_count = Cardinality(RecordsOf(first[i]))
        /\ \A i, j \in 1..Len(Top) :
              i < j =>
                 /\ Top[i].total_donated >= Top[j].total_donated
                 /\ Top[i].total_donated = Top[j].total_donated
                       => first[i] < first[j]
        /\ \A f \in FirstRecords \ listed :
              LET total == SumIdx(RecordsOf(f))
              IN  \A i \in 1..Len(Top) :
                     /\ Top[i].total_donated >= total
                     /\ Top[i].total_donated = total => first[i] < f

\* more than ten supporters, some with equal and some with different totals,
\* and a supporter with two donations
C2_Witness ==
    /\ Returned
    /\ analysis.unique_supporters > 10
    /\ Len(Top) = 10
    /\ Top[1].total_donated > Top[2].total_donated
    /\ Top[2].total_donated = Top[3].total_donated
    /\ \E i \in 1..Len(Top) : Top[i].donation_count = 2

\* C3 (as claimed): the totals of the supporters in top_supporters sum to at
\* most total_revenue.
C3_TopSumAtMostRevenue ==
    Returned =>
        Sum([i \in 1..Len(Top) |-> Top[i].total_donated])
            <= analysis.total_revenue

\* C4 (as claimed): the keys of daily_revenue are exactly the date-prefixes of
\* the records that have a created_at, and each value is the sum of the
\* amounts of the records with that date-prefix.
C4_KeysOfAllCreatedAt ==
    Returned =>
        /\ Keys = {PrefixOf(donations[i]) :
                      i \in {j \in Indices : HasCreatedAt(donations[j])}}
        /\ \A k \in 1..Len(analysis.daily_revenue) :
              analysis.daily_revenue[k].val =
                 SumIdx({i \in Indices :
                            /\ HasCreatedAt(donations[i])
                            /\ PrefixOf(donations[i])
                                  = analysis.daily_revenue[k].key})

\* C4 (amended): the keys of daily_revenue are exactly the date-prefixes of
\* the records whose created_at is a non-empty text, each key once, and each
\* value is the sum of the amounts of the records with that date-prefix.
C4_KeysOfNonEmptyCreatedAt ==
    Returned =>
        /\ Keys = {PrefixOf(donations[i]) :
                      i \in {j \in Indices : HasDate(donations[j])}}
        /\ Cardinality(Keys) = Len(analysis.daily_revenue)
        /\ \A k \in 1..Len(analysis.daily_revenue) :
              analysis.daily_revenue[k].val =
                 SumIdx({i \in Indices :
                            /\ HasDate(donations[i])
                            /\ PrefixOf(donations[i])
                                  = analysis.daily_revenue[k].key})

\* two records with different created_at texts share a date-prefix, a third
\* has another date, and the response is grouped under exactly two keys
C4_Witness ==
    /\ Returned
    /\ Len(analysis.daily_revenue) = 2
    /\ \E i, j \in Indices :
          /\ HasDate(donations[i]) /\ HasDate(donations[j])
          /\ donations[i].created_at # donations[j].created_at
          /\ PrefixOf(donations[i]) = PrefixOf(donations[j])
    /\ \E i \in Indices :
          HasDate(donations[i])
             /\ IndexOf(donations[i].created_at.s, "T", 1) > 1

\* C5 (as claimed): the name reported for a supporter is the first
\* supporter_name among all the records with that id, and the placeholder
\* only if no record with that id carries a supporter_name.
C5_FirstNameSeen ==
    Returned =>
        \A i \in 1..Len(Top) :
           LET mine == RecordsOf(FirstWithId(Ranked[i].id))
               named == {j \in mine : donations[j].supporter_name.t # "absent"}
           IN  Top[i].name =
                  IF named = {} THEN Placeholder(Ranked[i].id)
                  ELSE donations[CHOOSE j \in named :
                                    \A k \in named : j <= k].supporter_name

\* C5 (amended): the name reported for a supporter is the supporter_name of
\* the first record with that id, or the placeholder 'Supporter {id}' if that
\* first record has no supporter_name; later records never change it.
C5_NameOfFirstRecord ==
    Returned =>
        /\ Len(Ranked) = Cardinality(FirstRecords)
        /\ \A i \in 1..Len(Top) :
              LET first == donations[FirstWithId(Ranked[i].id)]
              IN  Top[i].name =
                     IF first.supporter_name.t = "absent"
                     THEN Placeholder(Ranked[i].id)
                     ELSE first.supporter_name

\* a supporter whose first record has no name and whose later record has one
\* is reported under the placeholder
C5_Witness ==
    /\ Returned
    /\ \E i \in 1..Len(Top) : \E j \in Indices :
          /\ GetNone(donations[j].supporter_id) = Ranked[i].id
          /\ j > FirstWithId(Ranked[i].id)
          /\ donations[FirstWithId(Ranked[i].id)].supporter_name.t = "absent"
          /\ donations[j].supporter_name.t = "str"
          /\ Top[i].name = Placeholder(Ranked[i].id)

\* C6: with a month outside 1..12, or a year and month that form no valid
\* first-of-month date, the run ends at the validation with a non-zero exit
\* status: no request is issued, no chart image and no PDF is written, and no
\* stage is entered.
C6_InvalidDateExits ==
    (argv_ok /\ ~(month \in 1..12 /\ year \in 1..9999)) =>
        /\ pc \in {"start", "parsed", "exit"}
        /\ pc = "exit" => exit_code > 0
        /\ requests = 0
        /\ charts = {}
        /\ ~pdf
        /\ log = << >>

\* month 13 was rejected
C6_Witness ==
    /\ argv_ok /\ month = 13 /\ year = 2024
    /\ pc = "exit" /\ exit_code = 1 /\ requests = 0

\* C7: the stages run at most once each in the order fetch, analyze, charts,
\* pdf, with at most one request; a failed stage is the last one, it leaves
\* no PDF and ends the process with a non-zero exit status; the PDF is
\* written only after all four stages succeeded.
C7_OnePassNoRetry ==
    /\ Len(log) <= 4
    /\ \A k \in 1..Len(log) :
          /\ log[k].stage = <<"fetch", "analyze", "charts", "pdf">>[k]
          /\ ~log[k].ok =>
                /\ k = Len(log)
                /\ pc = "exit" /\ exit_code > 0
                /\ ~pdf
    /\ requests <= 1
    /\ pdf => Len(log) = 4 /\ \A k \in 1..4 : log[k].ok
    /\ pc = "exit" /\ exit_code = 0 => pdf

\* analyze_donations raised after a successful fetch and ended the run
C7_Witness ==
    /\ pc = "exit" /\ exit_code = 1
    /\ Len(log) = 2 /\ log[1].ok /\ ~log[2].ok
    /\ analysis.status = "raised"
    /\ charts = {} /\ ~pdf

\* C8: unique_supporters <= total_supporters, with equality exactly when no
\* two records are of the same supporter (records without a supporter_id
\* being of one same supporter).
C8_UniqueAtMostTotal ==
    Returned =>
        /\ analysis.unique_supporters <= analysis.total_supporters
        /\ analysis.unique_supporters = analysis.total_supporters
              <=> \A i, j \in Indices :
                     i # j => ~SameSupporter(donations[i], donations[j])

\* two records without a supporter_id count as one supporter beside another
C8_Witness ==
    /\ Returned
    /\ analysis.total_supporters = 3
    /\ analysis.unique_supporters = 2
    /\ \E i, j \in Indices :
          /\ i # j
          /\ donations[i].supporter_id.t = "absent"
          /\ donations[j].supporter_id.t = "null"

C10_MissingAmountCountsZero ==
    Returned =>
        /\ analysis.total_supporters = Len(donations)
        /\ analysis.total_donations = Len(donations)
        /\ analysis.total_revenue
              = SumIdx({i \in Indices : HasAmount(donations[i])})
        /\ analysis.unique_supporters = Cardinality(FirstRecords)
        /\ \A i \in Indices :
              HasDate(donations[i]) =>
                 \E k \in 1..Len(analysis.daily_revenue) :
                    /\ analysis.daily_revenue[k].key = PrefixOf(donations[i])
                    /\ analysis.daily_revenue[k].val =
                          SumIdx({j \in Indices :
                                     /\ HasAmount(donations[j])
                                     /\ HasDate(donations[j])
                                     /\ PrefixOf(donations[j])
                                           = PrefixOf(donations[i])})
        /\ \A i \in Indices :
              \E k \in 1..Len(Ranked) :
                 /\ Ranked[k].id = GetNone(donations[i].supporter_id)
                 /\ Ranked[k].total =
                       SumIdx({j \in RecordsOf(i) : HasAmount(donations[j])})
                 /\ Ranked[k].count = Cardinality(RecordsOf(i))
                 /\ k <= 10 =>
                       /\ Top[k].total_donated = Ranked[k].total
                       /\ Top[k].donation_count = Ranked[k].count

\* a record with no amount shares its date and its supporter with a record
\* that has one, and is the only record of another supporter on no date
C10_Witness ==
    /\ Returned
    /\ analysis.total_revenue = 2
    /\ Len(donations) = 3
    /\ \E i, j \in Indices :
          /\ i # j
          /\ ~HasAmount(donations[i]) /\ HasAmount(donations[j])
          /\ HasDate(donations[i]) /\ HasDate(donations[j])
          /\ SameSupporter(donations[i], donations[j])
    /\ \E i \in Indices :
          ~HasAmount(donations[i]) /\ RecordsOf(i) = {i}

====
